---- MODULE Spec2Model ----
(***************************************************************************)
(* LogLite: an asynchronous logger.  Producer threads format a line and    *)
(* push it on a mutex/condition-variable queue (ThreadSafeQueue); a single *)
(* writer thread pops lines and appends them to log.txt; ~Logger clears    *)
(* m_active, pushes an empty string as a wake-up sentinel and joins the    *)
(* writer.  Each action below is one atomic step of one thread.            *)
(***************************************************************************)
EXTENDS Integers, Sequences, FiniteSets, TLC

\* main.cpp: num_threads (10 in the source) and the loop bound of
\* worker_function (100 in the source), scaled down.
NumThreads == 2
NumMessages == 1

Producers == 0 .. (NumThreads - 1)
MainThread == NumThreads
WriterThread == NumThreads + 1
Threads == Producers \cup {MainThread, WriterThread}
NoThread == 0 - 1

VARIABLES
    pc,             \* position of every thread
    spawned,        \* main: number of jthreads emplaced so far
    i,              \* worker_function: loop counter of each producer
    arg,            \* push(T value): the pending argument of each pushing thread
    logger_guard,   \* initialisation guard of the function-local static Logger
    m_active,       \* Logger::m_active
    m_queue,        \* ThreadSafeQueue::m_queue
    m_mutex,        \* ThreadSafeQueue::m_mutex: the owner, or NoThread
    m_cond,         \* ThreadSafeQueue::m_cond: the threads blocked in wait()
    m_log_file,     \* Logger::m_log_file: "unopened", "open" or "closed"
    log_txt,        \* the lines appended to log.txt by this process
    value,          \* wait_and_pop: local T value
    message,        \* writer_loop: local std::string message
    try_result,     \* writer_loop: the bool returned by the last try_pop
    destroyed,      \* members of Logger destroyed so far, in order
    pushed,         \* history: every item appended to m_queue, in append order
    popped,         \* history: every item removed from m_queue, in removal order
    constructions,  \* history: number of times Logger::Logger started
    threads_started, \* history: number of writer threads started
    late_pops       \* history: wait_and_pop returns made while m_active is false

vars == <<pc, spawned, i, arg, logger_guard, m_active, m_queue, m_mutex, m_cond,
          m_log_file, log_txt, value, message, try_result, destroyed,
          pushed, popped, constructions, threads_started, late_pops>>

\* The empty std::string pushed by ~Logger.
Sentinel == << >>

\* std::string::empty()
Empty(s) == Len(s) = 0

\* std::source_location::current() as evaluated at LogLite.hpp:92, in the
\* body of Logger::log.
LogLoc == [file |-> "include/LogLite.hpp", line |-> 92]

\* The call of Logger::instance().log(...) in worker_function.
CallSite == [file |-> "src/main.cpp", line |-> 9]

\* The line rendered by Logger::log for "Thread {} logging message #{}":
\* "[<now>] [<file>:<line>] Thread <tid> logging message #<k>".  The chrono
\* field is kept as the token "now".
Format(loc, tid, k) == <<"now", loc.file, loc.line, tid, k>>

AllMessages == {Format(LogLoc, t, k) : t \in Producers, k \in 0 .. (NumMessages - 1)}

Init ==
    /\ pc = [t \in Threads |->
                IF t = MainThread THEN "m_spawn" ELSE "notstarted"]
    /\ spawned = 0
    /\ i = [t \in Producers |-> 0]
    /\ arg = [t \in Threads |-> Sentinel]
    /\ logger_guard = "uninit"
    /\ m_active = TRUE
    /\ m_queue = << >>
    /\ m_mutex = NoThread
    /\ m_cond = {}
    /\ m_log_file = "unopened"
    /\ log_txt = << >>
    /\ value = Sentinel
    /\ message = Sentinel
    /\ try_result = FALSE
    /\ destroyed = << >>
    /\ pushed = << >>
    /\ popped = << >>
    /\ constructions = 0
    /\ threads_started = 0
    /\ late_pops = 0

----------------------------------------------------------------------------
\* main(): the spawn loop, the join of the producers at the end of main's
\* scope, then static destruction.

\* for (int i = 0; i < 100; ++i): the position a producer takes for iteration k.
LoopTest(k) == IF k < NumMessages THEN "instance" ELSE "done"

\* threads.emplace_back(worker_function, i)
MainSpawn ==
    /\ pc[MainThread] = "m_spawn"
    /\ spawned < NumThreads
    /\ spawned' = spawned + 1
    /\ pc' = [pc EXCEPT ![spawned] = LoopTest(0),
                        ![MainThread] = IF spawned + 1 < NumThreads
                                        THEN "m_spawn" ELSE "m_join"]
    /\ UNCHANGED <<late_pops, i, arg, logger_guard, m_active, m_queue, m_mutex, m_cond,
                   m_log_file, log_txt, value, message, try_result, destroyed,
                   pushed, popped, constructions, threads_started>>

\* `threads` goes out of scope: every producer jthread is joined; main
\* returns and the static Logger, if it was constructed, is destroyed.
MainJoin ==
    /\ pc[MainThread] = "m_join"
    /\ \A t \in Producers : pc[t] = "done"
    /\ pc' = [pc EXCEPT ![MainThread] =
                 IF logger_guard = "done" THEN "d_store" ELSE "exited"]
    /\ UNCHANGED <<late_pops, spawned, i, arg, logger_guard, m_active, m_queue, m_mutex,
                   m_cond, m_log_file, log_txt, value, message, try_result,
                   destroyed, pushed, popped, constructions, threads_started>>

----------------------------------------------------------------------------
\* Logger::instance() and Logger::Logger()

\* Mutant: the guard is tested but not taken atomically, so a caller that
\* arrives while construction is under way constructs as well.
InstanceCall_NoGuard(t) ==
    /\ pc[t] = "instance"
    /\ \/ /\ logger_guard = "done"
          /\ pc' = [pc EXCEPT ![t] = "log"]
          /\ UNCHANGED <<logger_guard, constructions>>
       \/ /\ logger_guard \in {"uninit", "constructing"}
          /\ logger_guard' = "constructing"
          /\ constructions' = constructions + 1
          /\ pc' = [pc EXCEPT ![t] = "ctor_open"]
    /\ UNCHANGED <<late_pops, spawned, i, arg, m_active, m_queue, m_mutex, m_cond,
                   m_log_file, log_txt, value, message, try_result, destroyed,
                   pushed, popped, threads_started>>

\* static Logger logger: the first caller takes the guard and constructs;
\* a caller that finds construction under way blocks until it is complete.
InstanceCall(t) ==
    /\ pc[t] = "instance"
    /\ \/ /\ logger_guard = "done"
          /\ pc' = [pc EXCEPT ![t] = "log"]
          /\ UNCHANGED <<logger_guard, constructions>>
       \/ /\ logger_guard = "uninit"
          /\ logger_guard' = "constructing"
          /\ constructions' = constructions + 1
          /\ pc' = [pc EXCEPT ![t] = "ctor_open"]
    /\ UNCHANGED <<late_pops, spawned, i, arg, m_active, m_queue, m_mutex, m_cond,
                   m_log_file, log_txt, value, message, try_result, destroyed,
                   pushed, popped, threads_started>>

\* Mutant: m_writer_thread is started before m_log_file is opened.
CtorOpenFile_AfterThread(t) ==
    /\ pc[t] = "ctor_open"
    /\ pc[WriterThread] = "notstarted"
    /\ threads_started' = threads_started + 1
    /\ pc' = [pc EXCEPT ![WriterThread] = "w_entry"]
    /\ UNCHANGED <<late_pops, spawned, i, arg, logger_guard, m_active, m_queue, m_mutex,
                   m_cond, m_log_file, log_txt, value, message, try_result,
                   destroyed, pushed, popped, constructions>>

\* m_log_file("log.txt", std::ios::app)
CtorOpenFile(t) ==
    /\ pc[t] = "ctor_open"
    /\ m_log_file' = "open"
    /\ pc' = [pc EXCEPT ![t] = "ctor_thread"]
    /\ UNCHANGED <<late_pops, spawned, i, arg, logger_guard, m_active, m_queue, m_mutex,
                   m_cond, log_txt, value, message, try_result, destroyed,
                   pushed, popped, constructions, threads_started>>

\* m_writer_thread = std::jthread(&Logger::writer_loop, this)
CtorStartThread(t) ==
    /\ pc[t] = "ctor_thread"
    /\ threads_started' = threads_started + 1
    /\ pc' = [pc EXCEPT ![t] = "ctor_done", ![WriterThread] = "w_entry"]
    /\ UNCHANGED <<late_pops, spawned, i, arg, logger_guard, m_active, m_queue, m_mutex,
                   m_cond, m_log_file, log_txt, value, message, try_result,
                   destroyed, pushed, popped, constructions>>

\* The constructor returns: the guard is released and instance() returns.
CtorReturn(t) ==
    /\ pc[t] = "ctor_done"
    /\ logger_guard' = "done"
    /\ pc' = [pc EXCEPT ![t] = "log"]
    /\ UNCHANGED <<late_pops, spawned, i, arg, m_active, m_queue, m_mutex, m_cond,
                   m_log_file, log_txt, value, message, try_result, destroyed,
                   pushed, popped, constructions, threads_started>>

----------------------------------------------------------------------------
\* Logger::log and ThreadSafeQueue::push

\* Logger::log up to the call of m_queue.push(std::move(full_message))
LogFormat(t) ==
    /\ pc[t] = "log"
    /\ arg' = [arg EXCEPT ![t] = Format(LogLoc, t, i[t])]
    /\ pc' = [pc EXCEPT ![t] = "p_lock"]
    /\ UNCHANGED <<late_pops, spawned, i, logger_guard, m_active, m_queue, m_mutex,
                   m_cond, m_log_file, log_txt, value, message, try_result,
                   destroyed, pushed, popped, constructions, threads_started>>

\* std::lock_guard<std::mutex> lock(m_mutex)
PushLock(t) ==
    /\ pc[t] = "p_lock"
    /\ m_mutex = NoThread
    /\ m_mutex' = t
    /\ pc' = [pc EXCEPT ![t] = "p_append"]
    /\ UNCHANGED <<late_pops, spawned, i, arg, logger_guard, m_active, m_queue, m_cond,
                   m_log_file, log_txt, value, message, try_result, destroyed,
                   pushed, popped, constructions, threads_started>>

\* Mutant: the item is put at the head of the queue.
PushAppend_Front(t) ==
    /\ pc[t] = "p_append"
    /\ m_queue' = <<arg[t]>> \o m_queue
    /\ pushed' = Append(pushed, arg[t])
    /\ pc' = [pc EXCEPT ![t] = "p_notify"]
    /\ UNCHANGED <<late_pops, spawned, i, arg, logger_guard, m_active, m_mutex, m_cond,
                   m_log_file, log_txt, value, message, try_result, destroyed,
                   popped, constructions, threads_started>>

\* Mutant: a bounded queue; push waits on the condition while it is full.
PushAppend_Bounded(t) ==
    /\ pc[t] = "p_append"
    /\ IF Len(m_queue) >= 1
       THEN /\ m_mutex' = NoThread
            /\ m_cond' = m_cond \cup {t}
            /\ pc' = [pc EXCEPT ![t] = "wp_parked"]
            /\ UNCHANGED <<m_queue, pushed>>
       ELSE /\ m_queue' = Append(m_queue, arg[t])
            /\ pushed' = Append(pushed, arg[t])
            /\ pc' = [pc EXCEPT ![t] = "p_notify"]
            /\ UNCHANGED <<m_mutex, m_cond>>
    /\ UNCHANGED <<late_pops, spawned, i, arg, logger_guard, m_active,
                   m_log_file, log_txt, value, message, try_result, destroyed,
                   popped, constructions, threads_started>>

\* Mutant: the lock covers the append only and is released before the signal.
PushAppend_Unlocks(t) ==
    /\ pc[t] = "p_append"
    /\ m_queue' = Append(m_queue, arg[t])
    /\ pushed' = Append(pushed, arg[t])
    /\ m_mutex' = NoThread
    /\ pc' = [pc EXCEPT ![t] = "p_notify"]
    /\ UNCHANGED <<late_pops, spawned, i, arg, logger_guard, m_active, m_cond,
                   m_log_file, log_txt, value, message, try_result, destroyed,
                   popped, constructions, threads_started>>

\* m_queue.push(std::move(value))
PushAppend(t) ==
    /\ pc[t] = "p_append"
    /\ m_queue' = Append(m_queue, arg[t])
    /\ pushed' = Append(pushed, arg[t])
    /\ pc' = [pc EXCEPT ![t] = "p_notify"]
    /\ UNCHANGED <<late_pops, spawned, i, arg, logger_guard, m_active, m_mutex, m_cond,
                   m_log_file, log_txt, value, message, try_result, destroyed,
                   popped, constructions, threads_started>>

\* Mutant: push does not notify.
PushNotify_None(t) ==
    /\ pc[t] = "p_notify"
    /\ pc' = [pc EXCEPT ![t] = "p_unlock"]
    /\ UNCHANGED <<late_pops, spawned, i, arg, logger_guard, m_active, m_queue, m_mutex,
                   m_cond, m_log_file, log_txt, value, message, try_result,
                   destroyed, pushed, popped, constructions, threads_started>>

\* m_cond.notify_one(): one thread blocked in wait(), if any, is released
\* and has to reacquire the mutex.
PushNotify(t) ==
    /\ pc[t] = "p_notify"
    /\ \/ /\ m_cond = {}
          /\ pc' = [pc EXCEPT ![t] = "p_unlock"]
          /\ UNCHANGED m_cond
       \/ \E w \in m_cond :
             /\ m_cond' = m_cond \ {w}
             /\ pc' = [pc EXCEPT ![t] = "p_unlock", ![w] = "wp_relock"]
    /\ UNCHANGED <<late_pops, spawned, i, arg, logger_guard, m_active, m_queue, m_mutex,
                   m_log_file, log_txt, value, message, try_result, destroyed,
                   pushed, popped, constructions, threads_started>>

\* The lock_guard goes out of scope and push returns: to the next iteration
\* of worker_function, or, in ~Logger, to the destruction of the members.
PushUnlock(t) ==
    /\ pc[t] = "p_unlock"
    /\ m_mutex' = NoThread
    /\ IF t = MainThread
       THEN /\ pc' = [pc EXCEPT ![t] = "d_join"]
            /\ UNCHANGED i
       ELSE /\ i' = [i EXCEPT ![t] = i[t] + 1]
            /\ pc' = [pc EXCEPT ![t] = LoopTest(i[t] + 1)]
    /\ UNCHANGED <<late_pops, spawned, arg, logger_guard, m_active, m_queue, m_cond,
                   m_log_file, log_txt, value, message, try_result, destroyed,
                   pushed, popped, constructions, threads_started>>

----------------------------------------------------------------------------
\* Logger::writer_loop with ThreadSafeQueue::wait_and_pop and try_pop

\* The new thread enters writer_loop.
WriterStart ==
    /\ pc[WriterThread] = "w_entry"
    /\ pc' = [pc EXCEPT ![WriterThread] = "w_loop"]
    /\ UNCHANGED <<late_pops, spawned, i, arg, logger_guard, m_active, m_queue, m_mutex,
                   m_cond, m_log_file, log_txt, value, message, try_result,
                   destroyed, pushed, popped, constructions, threads_started>>

\* Mutant: writer_loop returns when the blocking loop ends, without the drain.
WriterLoopTest_NoDrain ==
    /\ pc[WriterThread] = "w_loop"
    /\ pc' = [pc EXCEPT ![WriterThread] =
                 IF m_active THEN "wp_lock" ELSE "stopped"]
    /\ UNCHANGED <<late_pops, spawned, i, arg, logger_guard, m_active, m_queue, m_mutex,
                   m_cond, m_log_file, log_txt, value, message, try_result,
                   destroyed, pushed, popped, constructions, threads_started>>

\* Mutant: while (true): the loop never reads m_active.
WriterLoopTest_IgnoreFlag ==
    /\ pc[WriterThread] = "w_loop"
    /\ pc' = [pc EXCEPT ![WriterThread] = "wp_lock"]
    /\ UNCHANGED <<late_pops, spawned, i, arg, logger_guard, m_active, m_queue, m_mutex,
                   m_cond, m_log_file, log_txt, value, message, try_result,
                   destroyed, pushed, popped, constructions, threads_started>>

\* while (m_active): one atomic load.  On exit the drain's
\* `std::string message;` is default-constructed.
WriterLoopTest ==
    /\ pc[WriterThread] = "w_loop"
    /\ IF m_active
       THEN /\ pc' = [pc EXCEPT ![WriterThread] = "wp_lock"]
            /\ UNCHANGED message
       ELSE /\ pc' = [pc EXCEPT ![WriterThread] = "tp_lock"]
            /\ message' = << >>
    /\ UNCHANGED <<late_pops, spawned, i, arg, logger_guard, m_active, m_queue, m_mutex,
                   m_cond, m_log_file, log_txt, value, try_result, destroyed,
                   pushed, popped, constructions, threads_started>>

\* wait_and_pop: std::unique_lock<std::mutex> lock(m_mutex)
WaitLock ==
    /\ pc[WriterThread] = "wp_lock"
    /\ m_mutex = NoThread
    /\ m_mutex' = WriterThread
    /\ pc' = [pc EXCEPT ![WriterThread] = "wp_wait"]
    /\ UNCHANGED <<late_pops, spawned, i, arg, logger_guard, m_active, m_queue, m_cond,
                   m_log_file, log_txt, value, message, try_result, destroyed,
                   pushed, popped, constructions, threads_started>>

\* m_cond.wait(lock, pred): while (!pred()) wait(lock).  With the mutex
\* held the predicate is tested; if the queue is empty the mutex is released
\* and the thread blocks, atomically.
WaitCheck ==
    /\ pc[WriterThread] = "wp_wait"
    /\ IF Empty(m_queue)
       THEN /\ m_mutex' = NoThread
            /\ m_cond' = m_cond \cup {WriterThread}
            /\ pc' = [pc EXCEPT ![WriterThread] = "wp_parked"]
       ELSE /\ pc' = [pc EXCEPT ![WriterThread] = "wp_pop"]
            /\ UNCHANGED <<m_mutex, m_cond>>
    /\ UNCHANGED <<late_pops, spawned, i, arg, logger_guard, m_active, m_queue,
                   m_log_file, log_txt, value, message, try_result, destroyed,
                   pushed, popped, constructions, threads_started>>

\* A spurious wake-up of a thread blocked in wait().
SpuriousWake ==
    /\ pc[WriterThread] = "wp_parked"
    /\ WriterThread \in m_cond
    /\ m_cond' = m_cond \ {WriterThread}
    /\ pc' = [pc EXCEPT ![WriterThread] = "wp_relock"]
    /\ UNCHANGED <<late_pops, spawned, i, arg, logger_guard, m_active, m_queue, m_mutex,
                   m_log_file, log_txt, value, message, try_result, destroyed,
                   pushed, popped, constructions, threads_started>>

\* Mutant: if (m_queue.empty()) m_cond.wait(lock): no test after a wake-up.
WaitRelock_NoRecheck ==
    /\ pc[WriterThread] = "wp_relock"
    /\ m_mutex = NoThread
    /\ m_mutex' = WriterThread
    /\ pc' = [pc EXCEPT ![WriterThread] = "wp_pop"]
    /\ UNCHANGED <<late_pops, spawned, i, arg, logger_guard, m_active, m_queue, m_cond,
                   m_log_file, log_txt, value, message, try_result, destroyed,
                   pushed, popped, constructions, threads_started>>

\* wait() reacquires the mutex before it returns; the predicate is then
\* tested again.
WaitRelock ==
    /\ pc[WriterThread] = "wp_relock"
    /\ m_mutex = NoThread
    /\ m_mutex' = WriterThread
    /\ pc' = [pc EXCEPT ![WriterThread] = "wp_wait"]
    /\ UNCHANGED <<late_pops, spawned, i, arg, logger_guard, m_active, m_queue, m_cond,
                   m_log_file, log_txt, value, message, try_result, destroyed,
                   pushed, popped, constructions, threads_started>>

\* Mutant: the item is taken from the back of the queue.
WaitPop_Back ==
    /\ pc[WriterThread] = "wp_pop"
    /\ value' = m_queue[Len(m_queue)]
    /\ popped' = Append(popped, m_queue[Len(m_queue)])
    /\ m_queue' = SubSeq(m_queue, 1, Len(m_queue) - 1)
    /\ pc' = [pc EXCEPT ![WriterThread] = "wp_unlock"]
    /\ UNCHANGED <<late_pops, spawned, i, arg, logger_guard, m_active, m_mutex, m_cond,
                   m_log_file, log_txt, message, try_result, destroyed,
                   pushed, constructions, threads_started>>

\* T value = std::move(m_queue.front()); m_queue.pop();
WaitPop ==
    /\ pc[WriterThread] = "wp_pop"
    /\ value' = Head(m_queue)
    /\ popped' = Append(popped, Head(m_queue))
    /\ m_queue' = Tail(m_queue)
    /\ pc' = [pc EXCEPT ![WriterThread] = "wp_unlock"]
    /\ UNCHANGED <<late_pops, spawned, i, arg, logger_guard, m_active, m_mutex, m_cond,
                   m_log_file, log_txt, message, try_result, destroyed,
                   pushed, constructions, threads_started>>

\* Mutant: the lock taken by wait_and_pop is still held when it returns.
WaitReturn_KeepsLock ==
    /\ pc[WriterThread] = "wp_unlock"
    /\ message' = value
    /\ late_pops' = IF m_active THEN late_pops ELSE late_pops + 1
    /\ pc' = [pc EXCEPT ![WriterThread] = "w_write"]
    /\ UNCHANGED <<spawned, i, arg, logger_guard, m_active, m_queue, m_mutex,
                   m_cond, m_log_file, log_txt, value, try_result, destroyed,
                   pushed, popped, constructions, threads_started>>

\* return value: the unique_lock is released and
\* std::string message = m_queue.wait_and_pop() is initialised.
WaitReturn ==
    /\ pc[WriterThread] = "wp_unlock"
    /\ m_mutex' = NoThread
    /\ message' = value
    /\ late_pops' = IF m_active THEN late_pops ELSE late_pops + 1
    /\ pc' = [pc EXCEPT ![WriterThread] = "w_write"]
    /\ UNCHANGED <<spawned, i, arg, logger_guard, m_active, m_queue, m_cond,
                   m_log_file, log_txt, value, try_result, destroyed,
                   pushed, popped, constructions, threads_started>>

\* Mutant: the line is written without the test for the empty string.
WriteLine_NoCheck(s) == Append(log_txt, s)

\* if (!message.empty()) m_log_file << message << std::endl;
WriteLine(s) == IF Empty(s) THEN log_txt ELSE Append(log_txt, s)

\* The body of the blocking loop after wait_and_pop.
LoopWrite ==
    /\ pc[WriterThread] = "w_write"
    /\ log_txt' = WriteLine(message)
    /\ pc' = [pc EXCEPT ![WriterThread] = "w_loop"]
    /\ UNCHANGED <<late_pops, spawned, i, arg, logger_guard, m_active, m_queue, m_mutex,
                   m_cond, m_log_file, value, message, try_result, destroyed,
                   pushed, popped, constructions, threads_started>>

\* try_pop: std::lock_guard<std::mutex> lock(m_mutex)
TryLock ==
    /\ pc[WriterThread] = "tp_lock"
    /\ m_mutex = NoThread
    /\ m_mutex' = WriterThread
    /\ pc' = [pc EXCEPT ![WriterThread] = "tp_check"]
    /\ UNCHANGED <<late_pops, spawned, i, arg, logger_guard, m_active, m_queue, m_cond,
                   m_log_file, log_txt, value, message, try_result, destroyed,
                   pushed, popped, constructions, threads_started>>

\* Mutant: try_pop resets the caller's variable when the queue is empty.
TryPopBody_ClearsValue ==
    /\ pc[WriterThread] = "tp_check"
    /\ IF Empty(m_queue)
       THEN /\ try_result' = FALSE
            /\ message' = << >>
            /\ UNCHANGED <<m_queue, popped>>
       ELSE /\ try_result' = TRUE
            /\ message' = Head(m_queue)
            /\ popped' = Append(popped, Head(m_queue))
            /\ m_queue' = Tail(m_queue)
    /\ pc' = [pc EXCEPT ![WriterThread] = "tp_unlock"]
    /\ UNCHANGED <<late_pops, spawned, i, arg, logger_guard, m_active, m_mutex, m_cond,
                   m_log_file, log_txt, value, destroyed, pushed,
                   constructions, threads_started>>

\* Mutant: try_pop reports empty when one item is left.
TryPopBody_OffByOne ==
    /\ pc[WriterThread] = "tp_check"
    /\ IF Len(m_queue) <= 1
       THEN /\ try_result' = FALSE
            /\ UNCHANGED <<m_queue, message, popped>>
       ELSE /\ try_result' = TRUE
            /\ message' = Head(m_queue)
            /\ popped' = Append(popped, Head(m_queue))
            /\ m_queue' = Tail(m_queue)
    /\ pc' = [pc EXCEPT ![WriterThread] = "tp_unlock"]
    /\ UNCHANGED <<late_pops, spawned, i, arg, logger_guard, m_active, m_mutex, m_cond,
                   m_log_file, log_txt, value, destroyed, pushed,
                   constructions, threads_started>>

\* if (m_queue.empty()) return false;
\* value = std::move(m_queue.front()); m_queue.pop(); return true;
TryPopBody ==
    /\ pc[WriterThread] = "tp_check"
    /\ IF Empty(m_queue)
       THEN /\ try_result' = FALSE
            /\ UNCHANGED <<m_queue, message, popped>>
       ELSE /\ try_result' = TRUE
            /\ message' = Head(m_queue)
            /\ popped' = Append(popped, Head(m_queue))
            /\ m_queue' = Tail(m_queue)
    /\ pc' = [pc EXCEPT ![WriterThread] = "tp_unlock"]
    /\ UNCHANGED <<late_pops, spawned, i, arg, logger_guard, m_active, m_mutex, m_cond,
                   m_log_file, log_txt, value, destroyed, pushed,
                   constructions, threads_started>>

\* The lock_guard goes out of scope and try_pop returns;
\* while (m_queue.try_pop(message)) is decided: the drain body, or the
\* return of writer_loop.
TryReturn ==
    /\ pc[WriterThread] = "tp_unlock"
    /\ m_mutex' = NoThread
    /\ pc' = [pc EXCEPT ![WriterThread] =
                 IF try_result THEN "dr_write" ELSE "stopped"]
    /\ UNCHANGED <<late_pops, spawned, i, arg, logger_guard, m_active, m_queue, m_cond,
                   m_log_file, log_txt, value, message, try_result, destroyed,
                   pushed, popped, constructions, threads_started>>

\* Mutant: the drain pops the remaining items and discards them.
DrainWrite_NoWrite ==
    /\ pc[WriterThread] = "dr_write"
    /\ pc' = [pc EXCEPT ![WriterThread] = "tp_lock"]
    /\ UNCHANGED <<late_pops, spawned, i, arg, logger_guard, m_active, m_queue, m_mutex,
                   m_cond, m_log_file, log_txt, value, message, try_result,
                   destroyed, pushed, popped, constructions, threads_started>>

\* The body of the drain loop.
DrainWrite ==
    /\ pc[WriterThread] = "dr_write"
    /\ log_txt' = WriteLine(message)
    /\ pc' = [pc EXCEPT ![WriterThread] = "tp_lock"]
    /\ UNCHANGED <<late_pops, spawned, i, arg, logger_guard, m_active, m_queue, m_mutex,
                   m_cond, m_log_file, value, message, try_result, destroyed,
                   pushed, popped, constructions, threads_started>>

----------------------------------------------------------------------------
\* Logger::~Logger() and the destruction of the members, in reverse order
\* of declaration: m_writer_thread, m_log_file, m_queue, m_active.

\* Mutant: ~Logger pushes the sentinel without clearing m_active.
DtorStore_NoStore ==
    /\ pc[MainThread] = "d_store"
    /\ arg' = [arg EXCEPT ![MainThread] = Sentinel]
    /\ pc' = [pc EXCEPT ![MainThread] = "p_lock"]
    /\ UNCHANGED <<late_pops, spawned, i, logger_guard, m_active, m_queue, m_mutex, m_cond,
                   m_log_file, log_txt, value, message, try_result, destroyed,
                   pushed, popped, constructions, threads_started>>

\* m_active = false; then m_queue.push("") is called.
DtorStore ==
    /\ pc[MainThread] = "d_store"
    /\ m_active' = FALSE
    /\ arg' = [arg EXCEPT ![MainThread] = Sentinel]
    /\ pc' = [pc EXCEPT ![MainThread] = "p_lock"]
    /\ UNCHANGED <<late_pops, spawned, i, logger_guard, m_queue, m_mutex, m_cond,
                   m_log_file, log_txt, value, message, try_result, destroyed,
                   pushed, popped, constructions, threads_started>>

\* Mutant: the writer thread is not joined.
DtorJoin_NoJoin ==
    /\ pc[MainThread] = "d_join"
    /\ destroyed' = Append(destroyed, "m_writer_thread")
    /\ pc' = [pc EXCEPT ![MainThread] = "d_file"]
    /\ UNCHANGED <<late_pops, spawned, i, arg, logger_guard, m_active, m_queue, m_mutex,
                   m_cond, m_log_file, log_txt, value, message, try_result,
                   pushed, popped, constructions, threads_started>>

\* ~jthread(): request_stop() and join(): returns once writer_loop has
\* returned.
DtorJoin ==
    /\ pc[MainThread] = "d_join"
    /\ pc[WriterThread] = "stopped"
    /\ destroyed' = Append(destroyed, "m_writer_thread")
    /\ pc' = [pc EXCEPT ![MainThread] = "d_file"]
    /\ UNCHANGED <<late_pops, spawned, i, arg, logger_guard, m_active, m_queue, m_mutex,
                   m_cond, m_log_file, log_txt, value, message, try_result,
                   pushed, popped, constructions, threads_started>>

\* ~ofstream(): the file handle is released.
DtorFile ==
    /\ pc[MainThread] = "d_file"
    /\ m_log_file' = "closed"
    /\ destroyed' = Append(destroyed, "m_log_file")
    /\ pc' = [pc EXCEPT ![MainThread] = "d_queue"]
    /\ UNCHANGED <<late_pops, spawned, i, arg, logger_guard, m_active, m_queue, m_mutex,
                   m_cond, log_txt, value, message, try_result,
                   pushed, popped, constructions, threads_started>>

\* ~ThreadSafeQueue(), then ~atomic<bool>(); the process exits.
DtorQueue ==
    /\ pc[MainThread] = "d_queue"
    /\ destroyed' = destroyed \o <<"m_queue", "m_active">>
    /\ pc' = [pc EXCEPT ![MainThread] = "exited"]
    /\ UNCHANGED <<late_pops, spawned, i, arg, logger_guard, m_active, m_queue, m_mutex,
                   m_cond, m_log_file, log_txt, value, message, try_result,
                   pushed, popped, constructions, threads_started>>

----------------------------------------------------------------------------
Producer(t) ==
    \/ InstanceCall(t)
    \/ CtorOpenFile(t)
    \/ CtorStartThread(t)
    \/ CtorReturn(t)
    \/ LogFormat(t)

Push(t) ==
    \/ PushLock(t)
    \/ PushAppend(t)
    \/ PushNotify(t)
    \/ PushUnlock(t)

Writer ==
    \/ WriterStart
    \/ WriterLoopTest
    \/ WaitLock
    \/ WaitCheck
    \/ WaitRelock
    \/ WaitPop
    \/ WaitReturn
    \/ LoopWrite
    \/ TryLock
    \/ TryPopBody
    \/ TryReturn
    \/ DrainWrite

Main ==
    \/ MainSpawn
    \/ MainJoin
    \/ DtorStore
    \/ DtorJoin
    \/ DtorFile
    \/ DtorQueue

ThreadStep(t) ==
    \/ t \in Producers /\ Producer(t)
    \/ t \in Producers \cup {MainThread} /\ Push(t)
    \/ t = MainThread /\ Main
    \/ t = WriterThread /\ Writer

Next ==
    \/ MainSpawn
    \/ MainJoin
    \/ \E t \in Producers : InstanceCall(t)
    \/ \E t \in Producers : CtorOpenFile(t)
    \/ \E t \in Producers : CtorStartThread(t)
    \/ \E t \in Producers : CtorReturn(t)
    \/ \E t \in Producers : LogFormat(t)
    \/ \E t \in Producers \cup {MainThread} : PushLock(t)
    \/ \E t \in Producers \cup {MainThread} : PushAppend(t)
    \/ \E t \in Producers \cup {MainThread} : PushNotify(t)
    \/ \E t \in Producers \cup {MainThread} : PushUnlock(t)
    \/ WriterStart
    \/ WriterLoopTest
    \/ WaitLock
    \/ WaitCheck
    \/ SpuriousWake
    \/ WaitRelock
    \/ WaitPop
    \/ WaitReturn
    \/ LoopWrite
    \/ TryLock
    \/ TryPopBody
    \/ TryReturn
    \/ DrainWrite
    \/ DtorStore
    \/ DtorJoin
    \/ DtorFile
    \/ DtorQueue

Spec == Init /\ [][Next]_vars

\* Every thread that can take a step eventually takes one (each is an OS
\* thread of its own).  Spurious wake-ups are possible but never required.
FairSpec == Spec /\ \A t \in Threads : WF_vars(ThreadStep(t))

----------------------------------------------------------------------------
\* Vocabulary of the properties

Range(seq) == {seq[k] : k \in 1 .. Len(seq)}

Count(seq, x) == Cardinality({k \in 1 .. Len(seq) : seq[k] = x})

Pushers == Producers \cup {MainThread}

PushPcs == {"p_lock", "p_append", "p_notify", "p_unlock"}

WaitPcs == {"wp_lock", "wp_wait", "wp_parked", "wp_relock"}

\* ~jthread() has returned: the writer thread is joined.
Joined == Len(destroyed) >= 1

\* The empty string has been appended to the queue.
SentinelPushed == Sentinel \in Range(pushed)

\* writer_loop has been entered and has not returned.
WriterRunning == pc[WriterThread] \notin {"notstarted", "stopped"}

\* Thread t is at a statement that opens, writes or releases m_log_file.
FileAccess(t) ==
    \/ t \in Producers /\ pc[t] = "ctor_open"
    \/ t = MainThread /\ pc[t] = "d_file"
    \/ t = WriterThread /\ pc[t] \in {"w_write", "dr_write"} /\ ~Empty(message)

----------------------------------------------------------------------------
\* C1  No loss across shutdown: all log calls return before ~Logger starts
\* (main joins the producers first); once the writer is joined, log.txt
\* holds exactly NumThreads * NumMessages lines and every logged line
\* occurs in it exactly once.
NoLossAcrossShutdown ==
    Joined =>
        /\ Len(log_txt) = NumThreads * NumMessages
        /\ \A m \in AllMessages : Count(log_txt, m) = 1

NoLossWitness ==
    /\ pc[MainThread] = "exited"
    /\ Joined
    /\ Len(log_txt) = NumThreads * NumMessages
    /\ Len(log_txt) >= 2

\* C2  Teardown terminates: once m_active is false and the sentinel is in
\* the queue history, the writer eventually returns from writer_loop and
\* the join completes.
TeardownTerminates ==
    (~m_active /\ SentinelPushed) ~> (pc[WriterThread] = "stopped" /\ Joined)

\* The sentinel has just been appended while the writer is blocked in wait().
TeardownWitness ==
    /\ ~m_active
    /\ m_queue = <<Sentinel>>
    /\ pc[WriterThread] = "wp_parked"
    /\ WriterThread \in m_cond

SentinelInvariant ==
    /\ Count(pushed, Sentinel) <= 1
    /\ (pc[MainThread] \in {"p_notify", "p_unlock", "d_join", "d_file",
                            "d_queue", "exited"} /\ logger_guard = "done")
          => Count(pushed, Sentinel) = 1
    /\ pc[MainThread] \in {"m_spawn", "m_join", "d_store", "p_lock", "p_append"}
          => Count(pushed, Sentinel) = 0
    /\ \A k \in 1 .. Len(log_txt) : ~Empty(log_txt[k])

\* The sentinel has been popped by try_pop in the drain.
SentinelWitness ==
    /\ pc[WriterThread] = "dr_write"
    /\ Empty(message)
    /\ Len(log_txt) >= 1

\* C5  Blocking pop wakes on push: whenever the writer is inside
\* wait_and_pop (about to lock, testing, blocked or woken) and an item has
\* been pushed, wait_and_pop eventually returns; and what it returns is
\* exactly the item pushed next after those already handed out.
BlockingPopWakes ==
    /\ (pc[WriterThread] \in WaitPcs /\ ~Empty(m_queue))
          ~> (pc[WriterThread] = "w_write")
    /\ [](pc[WriterThread] = "w_write" =>
            /\ Len(popped) >= 1
            /\ message = pushed[Len(popped)])

\* The writer is blocked on the empty queue and a push has appended an item.
BlockingPopWitness ==
    /\ pc[WriterThread] = "wp_parked"
    /\ WriterThread \in m_cond
    /\ Len(m_queue) = 1
    /\ ~Empty(Head(m_queue))

\* C6  try_pop: on an empty queue it yields false, leaves the queue and the
\* caller's variable as they were and does not enter the wait set; on a
\* non-empty queue it yields true, removes exactly the head and hands it
\* to the caller.
TryPopNonBlocking ==
    [][(pc[WriterThread] = "tp_check" /\ pc'[WriterThread] # "tp_check") =>
          /\ pc'[WriterThread] = "tp_unlock"
          /\ m_cond' = m_cond
          /\ WriterThread \notin m_cond'
          /\ IF Empty(m_queue)
             THEN try_result' = FALSE /\ m_queue' = m_queue /\ message' = message
             ELSE try_result' = TRUE /\ m_queue' = Tail(m_queue)
                                    /\ message' = Head(m_queue)]_vars

\* try_pop has found the queue empty while the caller's variable held a line.
TryPopWitness ==
    /\ pc[WriterThread] = "tp_unlock"
    /\ try_result = FALSE
    /\ ~Empty(message)
    /\ Empty(m_queue)

\* C7  Non-blocking push: a thread in Logger::log or push is never in the
\* wait set of m_cond, and its next step can always be taken, except the
\* lock acquisition while another thread holds m_mutex.
NonBlockingPush ==
    \A t \in Pushers :
        /\ t \notin m_cond
        /\ pc[t] = "log" => ENABLED LogFormat(t)
        /\ pc[t] \in PushPcs =>
              \/ ENABLED Push(t)
              \/ pc[t] = "p_lock" /\ m_mutex \notin {NoThread, t}

\* A producer is pushing onto a queue from which nothing was ever popped.
NonBlockingPushWitness ==
    \E t \in Producers :
        /\ pc[t] = "p_unlock"
        /\ popped = << >>
        /\ Len(m_queue) >= 2

\* C8  Exactly-once construction: Logger::Logger runs at most once, at most
\* one writer thread is started, at most one thread is inside the
\* constructor, and a thread is in log or push only after construction has
\* finished, with the file open and the writer started.
ExactlyOnceConstruction ==
    /\ constructions <= 1
    /\ threads_started <= 1
    /\ Cardinality({t \in Producers :
                      pc[t] \in {"ctor_open", "ctor_thread", "ctor_done"}}) <= 1
    /\ \A t \in Producers :
          pc[t] \in PushPcs \cup {"log"} =>
             /\ logger_guard = "done"
             /\ constructions = 1
             /\ threads_started = 1
             /\ m_log_file = "open"

\* Two first calls race: one thread constructs, another waits in instance().
ExactlyOnceWitness ==
    \E t, u \in Producers :
        /\ t # u
        /\ pc[t] = "ctor_thread"
        /\ pc[u] = "instance" /\ i[u] = 0

\* C9  Flush before release: when m_log_file is destroyed the writer has
\* returned and every line pushed is in log.txt; m_queue is destroyed only
\* after the writer has returned too.
FlushBeforeRelease ==
    /\ m_log_file = "closed" =>
          /\ pc[WriterThread] = "stopped"
          /\ \A k \in 1 .. Len(pushed) :
                ~Empty(pushed[k]) => pushed[k] \in Range(log_txt)
    /\ "m_queue" \in Range(destroyed) => pc[WriterThread] = "stopped"
    /\ \A k \in 1 .. Len(destroyed) :
          destroyed[k] = <<"m_writer_thread", "m_log_file",
                           "m_queue", "m_active">>[k]

FlushWitness ==
    /\ m_log_file = "closed"
    /\ "m_queue" \in Range(destroyed)
    /\ Len(pushed) = NumThreads * NumMessages + 1

\* C10  The file handle has one accessor at a time: a thread other than the
\* writer is at a statement that touches m_log_file only while the writer
\* thread is not running, and no two threads are at such a statement.
SingleFileAccessor ==
    /\ \A t \in Pushers : FileAccess(t) => ~WriterRunning
    /\ \A t, u \in Threads : (FileAccess(t) /\ FileAccess(u)) => t = u

\* The writer appends a line while a producer is inside push.
SingleFileAccessorWitness ==
    /\ FileAccess(WriterThread)
    /\ \E t \in Producers : pc[t] \in PushPcs

\* C11  Call-site location: every line rendered by Logger::log carries the
\* file and line of the statement that called log (here main.cpp:9), not a
\* location inside the logger.
CallSiteLocation ==
    \A k \in 1 .. Len(pushed) :
        ~Empty(pushed[k]) =>
            /\ pushed[k][2] = CallSite.file
            /\ pushed[k][3] = CallSite.line

\* The non-empty items of a sequence, in order.
NonEmpty(seq) == SelectSeq(seq, LAMBDA x : ~Empty(x))

IsPrefix(a, b) == Len(a) <= Len(b) /\ a = SubSeq(b, 1, Len(a))

\* Positions of the writer between a pop and the write of the popped item.
PendingPcs == {"wp_unlock", "w_write", "tp_unlock", "dr_write"}

\* Positions of the writer in the final drain.
DrainPcs == {"tp_lock", "tp_check", "tp_unlock", "dr_write"}

\* C12  File order equals queue order: log.txt is always a prefix of the
\* non-empty items in push order; outside the window between a pop and its
\* write it is exactly the non-empty items popped so far, one line per
\* item, and after the join it is all of them.
FileOrderEqualsQueueOrder ==
    /\ IsPrefix(log_txt, NonEmpty(pushed))
    /\ Len(NonEmpty(popped)) - Len(log_txt) \in {0, 1}
    /\ pc[WriterThread] \notin PendingPcs => log_txt = NonEmpty(popped)
    /\ Joined => log_txt = NonEmpty(pushed)

\* A line written by the blocking loop is followed by one popped in the drain.
FileOrderWitness ==
    /\ pc[WriterThread] = "dr_write"
    /\ ~Empty(message)
    /\ Len(log_txt) >= 1
    /\ late_pops = 0

\* C13  Worker RUNNING: the loop test sends the writer to wait_and_pop when
\* m_active is true and to the drain when it is false; the loop body writes
\* the popped item if it is non-empty; and once the sentinel has been
\* popped the writer is never again inside wait_and_pop.
WorkerRunning ==
    /\ [](Sentinel \in Range(popped) =>
             pc[WriterThread] \notin WaitPcs \cup {"wp_pop"})
    /\ [][(pc[WriterThread] = "w_loop" /\ pc'[WriterThread] # "w_loop") =>
             pc'[WriterThread] = IF m_active THEN "wp_lock" ELSE "tp_lock"]_vars
    /\ [][(pc[WriterThread] = "w_write" /\ pc'[WriterThread] # "w_write") =>
             /\ pc'[WriterThread] = "w_loop"
             /\ log_txt' = IF Empty(message) THEN log_txt
                           ELSE Append(log_txt, message)]_vars

\* The blocking loop has popped the sentinel.
WorkerRunningWitness ==
    /\ pc[WriterThread] = "w_write"
    /\ Empty(message)
    /\ Sentinel \in Range(popped)

\* C14  Worker DRAINING: from the drain the writer only moves within the
\* drain (try_pop and write) or to STOPPED; when try_pop reports empty the
\* queue is empty and every non-empty item pushed so far is in log.txt; in
\* STOPPED the writer stays there and touches neither queue, mutex,
\* condition nor file.
WorkerDraining ==
    /\ [][pc[WriterThread] \in DrainPcs =>
             pc'[WriterThread] \in DrainPcs \cup {"stopped"}]_vars
    /\ []((pc[WriterThread] = "tp_unlock" /\ ~try_result) =>
             /\ Empty(m_queue)
             /\ log_txt = NonEmpty(pushed))
    /\ [](pc[WriterThread] = "stopped" =>
             /\ log_txt = NonEmpty(popped)
             /\ m_mutex # WriterThread
             /\ WriterThread \notin m_cond)
    /\ [][pc[WriterThread] = "stopped" =>
             /\ pc'[WriterThread] = "stopped"
             /\ log_txt' = log_txt
             /\ popped' = popped
             /\ message' = message]_vars

\* The drain has popped the sentinel and a line, and the writer has stopped.
WorkerDrainingWitness ==
    /\ pc[WriterThread] = "stopped"
    /\ late_pops = 0
    /\ Sentinel \in Range(popped)
    /\ Len(log_txt) = NumThreads * NumMessages

\* C15  Late flag observation: at most one wait_and_pop returns after
\* m_active has been set to false.
LateFlagOneCycle == late_pops <= 1

\* A wait_and_pop entered on a true flag has returned a line after the store.
LateFlagWitness ==
    /\ late_pops = 1
    /\ pc[WriterThread] = "w_write"
    /\ ~Empty(message)
    /\ ~m_active

\* C16 as stated: a thread never holds the queue mutex at the moment it
\* signals the condition variable.
SignalAfterRelease ==
    \A t \in Pushers : pc[t] = "p_notify" => m_mutex # t

\* C16 as amended: push locks, appends, signals and only then unlocks; the
\* mutex is held by the pushing thread from the append to the unlock,
\* the signal included.
SignalUnderLock ==
    /\ [](\A t \in Pushers :
             pc[t] \in {"p_append", "p_notify", "p_unlock"} => m_mutex = t)
    /\ [][\A t \in Pushers :
             /\ (pc[t] = "p_lock" /\ pc'[t] # "p_lock") =>
                   (pc'[t] = "p_append" /\ m_mutex = NoThread /\ m_mutex' = t)
             /\ (pc[t] = "p_append" /\ pc'[t] # "p_append") =>
                   (pc'[t] = "p_notify" /\ m_queue' = Append(m_queue, arg[t]))
             /\ (pc[t] = "p_notify" /\ pc'[t] # "p_notify") =>
                   (pc'[t] = "p_unlock" /\ m_mutex' = t /\ m_queue' = m_queue)
             /\ (pc[t] = "p_unlock" /\ pc'[t] # "p_unlock") =>
                   (pc'[t] \notin PushPcs /\ m_mutex' = NoThread)]_vars

\* A push signals the blocked writer while it holds the mutex.
SignalUnderLockWitness ==
    \E t \in Pushers :
        /\ pc[t] = "p_notify"
        /\ m_mutex = t
        /\ WriterThread \in m_cond

\* C17  wait_and_pop tests emptiness under the lock after every wake-up:
\* a woken thread reacquires the mutex and tests the predicate again; it
\* blocks again if the queue is empty; an item is removed only from a
\* non-empty queue, and it is the head.
WaitRechecks ==
    /\ [](pc[WriterThread] = "wp_pop" =>
             (~Empty(m_queue) /\ m_mutex = WriterThread))
    /\ [][(pc[WriterThread] = "wp_relock" /\ pc'[WriterThread] # "wp_relock") =>
             (pc'[WriterThread] = "wp_wait" /\ m_mutex' = WriterThread)]_vars
    /\ [][(pc[WriterThread] = "wp_wait" /\ pc'[WriterThread] # "wp_wait") =>
             /\ m_mutex = WriterThread
             /\ IF Empty(m_queue)
                THEN pc'[WriterThread] = "wp_parked" /\ popped' = popped
                ELSE pc'[WriterThread] = "wp_pop"]_vars
    /\ [][popped' # popped =>
             (~Empty(m_queue) /\ popped' = Append(popped, Head(m_queue)))]_vars

\* The writer was woken although the queue is empty (a spurious wake-up).
WaitRechecksWitness ==
    /\ pc[WriterThread] = "wp_relock"
    /\ Empty(m_queue)
    /\ WriterThread \notin m_cond

\* C18  The liveness flag changes only from true to false, only in
\* ~Logger's store, and stays false; whenever the sentinel is in the queue
\* or has been popped the flag is false.
FlagWrittenOnce ==
    /\ [][m_active' # m_active =>
             (m_active /\ ~m_active' /\ pc[MainThread] = "d_store")]_vars
    /\ [][~m_active => ~m_active']_vars
    /\ [](SentinelPushed => ~m_active)
    /\ [](pc[MainThread] \in {"m_spawn", "m_join", "d_store"} => m_active)
    /\ [](pc[MainThread] \in PushPcs \cup {"d_join", "d_file", "d_queue",
                                           "exited"} => ~m_active)

\* The sentinel is queued, unpopped, after the store.
FlagWrittenOnceWitness ==
    /\ ~m_active
    /\ Len(m_queue) >= 2
    /\ m_queue[Len(m_queue)] = Sentinel

\* C19  The writer never holds the queue mutex while it writes a line: it
\* holds it only inside wait_and_pop and try_pop.
WriteOutsideLock ==
    /\ pc[WriterThread] \in {"w_write", "dr_write"} => m_mutex # WriterThread
    /\ m_mutex = WriterThread =>
          pc[WriterThread] \in {"wp_wait", "wp_pop", "wp_unlock",
                                "tp_check", "tp_unlock"}

\* The writer writes a line while a producer is inside push's critical section.
WriteOutsideLockWitness ==
    /\ pc[WriterThread] = "w_write"
    /\ ~Empty(message)
    /\ \E t \in Producers : m_mutex = t

\* C20  Residual queue: once the writer has stopped the queue holds no real
\* item: it is empty, or holds just the sentinel, which then was pushed
\* after the drain found the queue empty and has not been popped.
ResidualQueue ==
    pc[WriterThread] = "stopped" =>
        \/ Empty(m_queue)
        \/ /\ m_queue = <<Sentinel>>
           /\ Sentinel \notin Range(popped)
           /\ ~m_active

\* The writer finished its drain before ~Logger pushed the sentinel.
ResidualQueueWitness ==
    /\ pc[WriterThread] = "stopped"
    /\ m_queue = <<Sentinel>>
    /\ Len(log_txt) = NumThreads * NumMessages

====
